---- MODULE Spec2Model ----
(***************************************************************************)
(* Ledger / transfer engine and payment webhook pipeline of fintech_system *)
(* (transactions/services.py, wallet/models.py, transactions/models.py,    *)
(* payments/services.py, payments/tasks.py, payments/views.py), with the   *)
(* KYC endpoints of users/views.py and the wallet signals.                 *)
(*                                                                         *)
(* The database is modelled as committed tables plus, for every running    *)
(* call, the writes of its open transaction (transaction.atomic): they     *)
(* become visible to others only at Commit and are dropped on rollback.    *)
(* Reads are READ COMMITTED; select_for_update takes a row lock held to    *)
(* the end of the transaction; an insert that collides on a unique index   *)
(* with an uncommitted insert waits for that transaction to end.  The      *)
(* idempotency cache is not transactional: its writes are visible at once. *)
(***************************************************************************)
EXTENDS Integers, Sequences, FiniteSets, TLC

\* ------------------------------------------------------------------ bounds
MaxAmount == 2
MaxCalls == 3

\* ------------------------------------------------------------ input domains
Users == {"A", "B", "C"}
Procs == {1, 2}
NoKey == ""
\* a transfer without a key behaves as one whose key nobody else uses, so the
\* callers here always send one: a key of their own, or one that has the form
\* of a deposit reference
IdempotencyKeys == {"K1", "DEPOSIT-P1"}
TransferAmounts == {-1} \cup 1..MaxAmount
DepositAmounts == {-1, MaxAmount}
PaymentIds == {"P1"}
IntentUsers == {"A", "C"}
EventTypes == {"payment.succeeded", "payment.failed", "payment.refunded"}
\* the optional error_message of a payload: absent, or the gateway's text
PayloadErrors == {<<>>, <<"card declined">>}
NoUser == "none"
KYCStatus == {"PENDING", "IN_REVIEW", "VERIFIED", "REJECTED", "EXPIRED"}
\* the users created by create_superuser
Staff == {"A"}
\* the users whose KYC record and account change in KycSpec
KycSubjects == {"B"}
Null == <<>>

\* ------------------------------------------------------------------- state
VARIABLES
    users,        \* users table: the users that have been created
    wallets,      \* wallets table: the users that have a wallet row (user is unique)
    kyc_status,   \* users.kyc_status
    kyc_verified_at, \* users.kyc_verified_at
    response,     \* HTTP status of the last request to a KYC endpoint, 0 before any
    is_active,    \* users.is_active
    balance,      \* wallets.balance, committed
    txns,         \* transactions table, committed rows
    ledger,       \* transaction_ledger table, committed rows in commit order
    cache,        \* idempotency cache: set of [key, id]
    intents,      \* payment_intents table, committed rows
    events,       \* webhook_events table, committed rows
    pc,           \* position of each worker in the call it runs
    op,           \* the arguments of that call
    tx,           \* the open database transaction of that call
    result,       \* what the last call of the worker returned or raised
    calls,        \* number of calls started so far
    queue         \* the Celery queue: webhook deliveries waiting to be processed

vars == <<users, wallets, kyc_status, kyc_verified_at, response, is_active, balance, txns, ledger,
          cache, intents, events, pc, op, tx, result, calls, queue>>

\* ------------------------------------------------------------ users/models.py
is_kyc_verified(u) == kyc_status[u] = "VERIFIED"

\* can_transact that does not look at is_active
can_transact_any_account(u) == is_kyc_verified(u)

can_transact(u) == is_active[u] /\ is_kyc_verified(u)

\* ----------------------------------------------------------- wallet/signals.py
\* a wallet row that starts with money in it
Wallet_default_balance_funded == MaxAmount

\* wallet/models.py lines 28-33: the default of Wallet.balance
Wallet_default_balance == 0

\* the wallets table is keyed by its unique user column; Wallet.objects.create
\* is only reached for a user without a row
create_wallet_for_user(ws, instance, created) ==
    IF created THEN ws \cup {instance} ELSE ws

\* hasattr(instance, 'wallet') is the lookup of the user's wallet row
save_wallet_for_user(ws, instance) ==
    IF instance \notin ws THEN ws \cup {instance} ELSE ws

\* Model.save of a user sends post_save to the two receivers in the order the
\* module defines them; a row they insert holds the default balance
post_save(instance, created) ==
    /\ wallets' = save_wallet_for_user(create_wallet_for_user(wallets, instance, created),
                                      instance)
    /\ balance' = [u \in Users |-> IF u \in wallets' \ wallets
                                   THEN Wallet_default_balance ELSE balance[u]]

\* ------------------------------------------------------------ users/models.py
\* UserManager.create_user: the row takes the defaults of kyc_status,
\* kyc_verified_at and is_active
create_user(u) ==
    /\ u \notin users
    /\ users' = users \cup {u}
    /\ kyc_status' = [kyc_status EXCEPT ![u] = "PENDING"]
    /\ kyc_verified_at' = [kyc_verified_at EXCEPT ![u] = Null]
    /\ is_active' = [is_active EXCEPT ![u] = TRUE]
    /\ post_save(u, TRUE)
    /\ UNCHANGED response

\* ------------------------------------------------------------- users/views.py
\* timezone.now() at the time of the request
Now == <<"now">>

\* submit_kyc: refused with 400 for a VERIFIED user, else
\* KYCSubmissionSerializer.update sets IN_REVIEW and saves the user
submit_kyc(u) ==
    /\ u \in users
    /\ IF kyc_status[u] = "VERIFIED"
       THEN response' = 400 /\ UNCHANGED <<kyc_status, wallets, balance>>
       ELSE /\ kyc_status' = [kyc_status EXCEPT ![u] = "IN_REVIEW"]
            /\ post_save(u, FALSE)
            /\ response' = 200
    /\ UNCHANGED <<users, kyc_verified_at, is_active>>

\* a privilege check that lets every caller through
is_staff_anyone(u) == TRUE

\* request.user.is_staff: set by create_superuser
is_staff(u) == u \in Staff

\* approve_kyc: refused with 403 unless the caller is staff; kyc_verified_at
\* is written together with the status
approve_kyc(caller, u) ==
    /\ caller \in users /\ u \in users
    /\ IF ~is_staff(caller)
       THEN response' = 403 /\ UNCHANGED <<kyc_status, kyc_verified_at, wallets, balance>>
       ELSE /\ kyc_status' = [kyc_status EXCEPT ![u] = "VERIFIED"]
            /\ kyc_verified_at' = [kyc_verified_at EXCEPT ![u] = Now]
            /\ post_save(u, FALSE)
            /\ response' = 200
    /\ UNCHANGED <<users, is_active>>

\* reject_kyc: refused with 403 unless the caller is staff
reject_kyc(caller, u) ==
    /\ caller \in users /\ u \in users
    /\ IF ~is_staff(caller)
       THEN response' = 403 /\ UNCHANGED <<kyc_status, wallets, balance>>
       ELSE /\ kyc_status' = [kyc_status EXCEPT ![u] = "REJECTED"]
            /\ post_save(u, FALSE)
            /\ response' = 200
    /\ UNCHANGED <<users, kyc_verified_at, is_active>>

\* users/admin.py: the admin form of a user saves kyc_status and is_active
UserAdmin_save(u, status, active) ==
    /\ u \in users
    /\ kyc_status' = [kyc_status EXCEPT ![u] = status]
    /\ is_active' = [is_active EXCEPT ![u] = active]
    /\ post_save(u, FALSE)
    /\ UNCHANGED <<users, kyc_verified_at, response>>

\* ----------------------------------------------------------- wallet/models.py
\* a wallet that lets every debit through
can_debit_any(bal, amount) == TRUE

can_debit(bal, amount) == bal >= amount

\* an amount check that lets every amount through
positive_amount_any(amount) == TRUE

\* credit and debit raise ValueError unless the amount is positive
positive_amount(amount) == amount > 0

\* a credit applied twice to the stored balance
credit_twice(bal, amount) == bal + amount + amount

\* a credit that does not reach the stored balance
credit_lost(bal, amount) == bal

credit(bal, amount) == bal + amount

\* a debit that does not reach the stored balance
debit_lost(bal, amount) == bal

debit(bal, amount) == bal - amount

\* ------------------------------------------------------ transactions/models.py
NewTransaction(id, ref, from, to, amount, type) ==
    [id |-> id, reference_id |-> ref, from_user |-> from, to_user |-> to,
     amount |-> amount, transaction_type |-> type, status |-> "PROCESSING",
     from_balance_before |-> Null, from_balance_after |-> Null,
     to_balance_before |-> Null, to_balance_after |-> Null,
     error_message |-> ""]

\* Model.save(update_fields=...): the row takes the status and the error message
\* of the in-memory object; every other column keeps its stored value
SaveStatus(row, obj) ==
    [row EXCEPT !.status = obj.status, !.error_message = obj.error_message]

\* a mark_completed that leaves the status as it was
mark_completed_skipped(obj) == obj

mark_completed(obj) == [obj EXCEPT !.status = "COMPLETED"]

mark_failed(obj, msg) == [obj EXCEPT !.status = "FAILED", !.error_message = msg]

LedgerEntry(txn, user, type, amount, bal) ==
    [transaction |-> txn, user |-> user, entry_type |-> type, amount |-> amount,
     balance_after |-> bal]

\* a transfer that writes its DEBIT entry only
TransferEntries_debit_only(txn, from, to, amount, from_after, to_after) ==
    <<LedgerEntry(txn, from, "DEBIT", amount, from_after)>>

\* lines 122-137 of transfer_money
TransferEntries(txn, from, to, amount, from_after, to_after) ==
    <<LedgerEntry(txn, from, "DEBIT", amount, from_after),
      LedgerEntry(txn, to, "CREDIT", amount, to_after)>>

\* a deposit that writes no ledger entry
DepositEntries_none(txn, user, amount, after) == <<>>

\* lines 211-218 of add_money
DepositEntries(txn, user, amount, after) ==
    <<LedgerEntry(txn, user, "CREDIT", amount, after)>>

\* --------------------------------------------------------- payments/models.py
NewPaymentIntent(pid, user, amount) ==
    [gateway_payment_id |-> pid, user |-> user, amount |-> amount,
     status |-> "PENDING", error_message |-> ""]

mark_succeeded(intent) == [intent EXCEPT !.status = "SUCCEEDED"]

intent_mark_failed(intent, msg) == [intent EXCEPT !.status = "FAILED", !.error_message = msg]

\* aged: created_at lies more than the retention period before now
NewWebhookEvent(event_id, event_type) ==
    [event_id |-> event_id, event_type |-> event_type, status |-> "PROCESSING",
     error_message |-> "", retry_count |-> 0, aged |-> FALSE]

mark_processed(ev) == [ev EXCEPT !.status = "PROCESSED"]

event_mark_failed(ev, msg) ==
    [ev EXCEPT !.status = "FAILED", !.error_message = msg, !.retry_count = @ + 1]

\* --------------------------------------------------- transactions/services.py
generate_reference_id(n) == "TXN-" \o ToString(n)

CacheGet(c, key) == {e.id : e \in {x \in c : x.key = key}}

CacheDelete(c, key) == {x \in c : x.key # key}

CacheSet(c, key, id) == CacheDelete(c, key) \cup {[key |-> key, id |-> id]}

\* check_idempotency without the database lookup of lines 47-53
check_idempotency_cache_only(c, rows, key) ==
    LET cached == CacheGet(c, key)
        byId == {t \in rows : t.id \in cached}
    IN  IF byId # {}
        THEN [txn |-> <<CHOOSE t \in byId : TRUE>>, cache |-> c]
        ELSE [txn |-> Null, cache |-> CacheDelete(c, key)]

\* check_idempotency without the cache.delete of line 45
check_idempotency_keep_stale(c, rows, key) ==
    LET cached == CacheGet(c, key)
        byId == {t \in rows : t.id \in cached}
        byRef == {t \in rows : t.reference_id = key}
    IN  IF byId # {}
        THEN [txn |-> <<CHOOSE t \in byId : TRUE>>, cache |-> c]
        ELSE IF byRef # {}
             THEN LET t == CHOOSE t \in byRef : TRUE
                  IN  [txn |-> <<t>>, cache |-> CacheSet(c, key, t.id)]
             ELSE [txn |-> Null, cache |-> c]

\* check_idempotency: the transaction found (<<>> for None) and the cache after
\* the lookup; rows are the rows the caller's database transaction can see
check_idempotency(c, rows, key) ==
    LET cached == CacheGet(c, key)
        byId == {t \in rows : t.id \in cached}
        c1 == IF cached # {} /\ byId = {} THEN CacheDelete(c, key) ELSE c
        byRef == {t \in rows : t.reference_id = key}
    IN  IF byId # {}
        THEN [txn |-> <<CHOOSE t \in byId : TRUE>>, cache |-> c]
        ELSE IF byRef # {}
             THEN LET t == CHOOSE t \in byRef : TRUE
                  IN  [txn |-> <<t>>, cache |-> CacheSet(c1, key, t.id)]
             ELSE [txn |-> Null, cache |-> c1]

\* transfer_money without the check of line 65
validate_transfer_no_self_check(from, to) ==
    IF ~can_transact(from) THEN "Sender is not verified to perform transactions"
    ELSE IF ~can_transact(to) THEN "Recipient is not verified to receive transactions"
    ELSE ""

\* lines 64-72 of transfer_money: the message of the InvalidTransactionError
\* the validation raises, "" when it passes
validate_transfer(from, to) ==
    IF from = to THEN "Cannot transfer to yourself"
    ELSE IF ~can_transact(from) THEN "Sender is not verified to perform transactions"
    ELSE IF ~can_transact(to) THEN "Recipient is not verified to receive transactions"
    ELSE ""

\* ------------------------------------------------------- database transactions
NoTx == [row |-> Null, obj |-> Null, held |-> {}, bal |-> [u \in Users |-> 0],
         led |-> <<>>, ev |-> Null, intent |-> Null]

NoOp == [fn |-> "none", from_user |-> NoUser, to_user |-> NoUser, amount |-> 0,
         reference_id |-> "", id |-> 0, payment_id |-> "", event_type |-> "",
         error_message |-> Null, existing_event |-> Null, task |-> Null,
         payload_amount |-> Null, payload_user_email |-> Null]

NoResult == [kind |-> "none", txn |-> Null, message |-> ""]

\* line 152 (232): the call returns the transaction it created
Returned(t) == [kind |-> "ok", txn |-> <<t>>, message |-> ""]

\* line 80 (180): the call returns the transaction check_idempotency found
Duplicate(t) == [kind |-> "duplicate", txn |-> <<t>>, message |-> ""]

\* the call raises e; msg is the text of an InvalidTransactionError
Raised(e, msg) == [kind |-> e, txn |-> Null, message |-> msg]

\* uuid4 of a new transaction: a value no table, open transaction, cache entry
\* or returned object mentions
UsedIds ==
    {t.id : t \in txns} \cup {e.id : e \in cache}
    \cup {tx[q].obj[1].id : q \in {r \in Procs : tx[r].obj # Null}}
    \cup {op[q].id : q \in Procs}
    \cup {result[q].txn[1].id : q \in {r \in Procs : result[r].txn # Null}}

\* a primary key that is not new: the smallest one in use
FreshId_reused == CHOOSE n \in UsedIds : \A m \in UsedIds : n <= m

FreshId == CHOOSE n \in 1..(MaxCalls + 1) : n \notin UsedIds /\ \A m \in 1..(n - 1) : m \in UsedIds

\* rows another open transaction has inserted and not yet committed
PendingRefs(p) == {tx[q].row[1].reference_id : q \in {r \in Procs \ {p} : tx[r].row # Null}}

LockedByOther(p, u) == \E q \in Procs \ {p} : u \in tx[q].held

\* The opening state: users A and B are verified, C has not submitted KYC, and
\* A's wallet holds one completed deposit of MaxAmount (add_money, reference
\* TXN-0), whose cache entry has expired; no other row exists.
OpeningDeposit ==
    [NewTransaction(0, generate_reference_id(0), NoUser, "A", MaxAmount, "DEPOSIT")
        EXCEPT !.status = "COMPLETED"]

\* created: the users registered so far; stored: the webhook_events table
Construction(created, stored) ==
    /\ users = created
    /\ wallets = created
    /\ kyc_verified_at = [u \in Users |-> Null]
    /\ response = 0
    /\ queue = {}
    /\ kyc_status = [u \in Users |-> IF u = "C" THEN "PENDING" ELSE "VERIFIED"]
    /\ is_active = [u \in Users |-> TRUE]
    /\ balance = [u \in Users |-> IF u = "A" THEN MaxAmount ELSE 0]
    /\ txns = {OpeningDeposit}
    /\ ledger = <<LedgerEntry(0, "A", "CREDIT", MaxAmount, MaxAmount)>>
    /\ cache = {}
    /\ intents = {}
    /\ events = stored
    /\ pc = [p \in Procs |-> "idle"]
    /\ op = [p \in Procs |-> NoOp]
    /\ tx = [p \in Procs |-> NoTx]
    /\ result = [p \in Procs |-> NoResult]
    /\ calls = 0

Init == Construction(Users, {})

\* payments/tasks.py line 10
max_retries == 3

\* a retry scheduled although the task has used up its retries
may_retry_always(retries) == TRUE

\* Task.retry re-raises the exception instead of re-scheduling once
\* request.retries has reached max_retries
may_retry(retries) == retries < max_retries

\* line 31: countdown=60 * (2 ** self.request.retries)
countdown(retries) == 60 * (2 ^ retries)

\* process_webhook_async.delay(payload): the message put on the queue
NewJob(id, pid, etype, msg, signature_ok) ==
    [id |-> id, payment_id |-> pid, event_type |-> etype, error_message |-> msg,
     signature_ok |-> signature_ok, retries |-> 0, countdown |-> 0]

\* self.retry(exc=exc, countdown=...): the same message, one retry later
RetryJob(job) ==
    [job EXCEPT !.retries = @ + 1, !.countdown = countdown(job.retries)]

\* lines 27-31 of process_webhook_async, around the call the worker ran: when
\* the call has raised and it was made by the task, the task re-schedules itself
process_webhook_async_except(p) ==
    queue' = IF /\ op[p].task # Null
                /\ pc'[p] = "done"
                /\ result'[p].kind # "ok"
                /\ may_retry(op[p].task[1].retries)
             THEN queue \cup {RetryJob(op[p].task[1])}
             ELSE queue

\* the call ends by raising e: the outermost transaction.atomic rolls the open
\* transaction back and releases its row locks.  What an except block wrote
\* before re-raising (txn.mark_failed at lines 155, 160 and 235,
\* webhook_event.mark_failed at lines 139 and 145 of payments/services.py) was
\* written inside that transaction and is rolled back with it.
RaiseWith(p, e, msg) ==
    /\ pc' = [pc EXCEPT ![p] = "done"]
    /\ op' = [op EXCEPT ![p] = NoOp]
    /\ tx' = [tx EXCEPT ![p] = NoTx]
    /\ result' = [result EXCEPT ![p] = Raised(e, msg)]

Raise(p, e) == RaiseWith(p, e, "")

\* the call ends by returning a transaction it did not create
ReturnExisting(p, t) ==
    /\ pc' = [pc EXCEPT ![p] = "done"]
    /\ op' = [op EXCEPT ![p] = NoOp]
    /\ tx' = [tx EXCEPT ![p] = NoTx]
    /\ result' = [result EXCEPT ![p] = Duplicate(t)]

Free(p) == pc[p] \in {"idle", "done"}

\* a new call is served by the first free worker (the workers are alike)
CanStart(p) == Free(p) /\ calls < MaxCalls /\ \A q \in Procs : q < p => ~Free(q)

\* a transfer_money that looks the reference up before it validates the parties
transfer_money_entry_lookup_first(from, to, idem) ==
    IF idem.txn # Null THEN "return"
    ELSE IF validate_transfer(from, to) # "" THEN "raise"
    ELSE "create"

\* lines 62-80 of transfer_money: the validation of lines 64-72 comes first and
\* raises; only then the idempotency lookup of line 75 decides between
\* returning the transaction it found (line 80) and creating one (line 83)
transfer_money_entry(from, to, idem) ==
    IF validate_transfer(from, to) # "" THEN "raise"
    ELSE IF idem.txn # Null THEN "return"
    ELSE "create"

\* transfer_money, lines 62-80: validation and idempotency check
TransferCall(p, from, to, amount, key) ==
    /\ CanStart(p)
    /\ calls' = calls + 1
    /\ LET ref == IF key # NoKey THEN key ELSE generate_reference_id(FreshId)
           idem == check_idempotency(cache, txns, ref)
       IN  IF transfer_money_entry(from, to, idem) = "raise"
           THEN /\ RaiseWith(p, "InvalidTransactionError", validate_transfer(from, to))
                /\ UNCHANGED cache
           ELSE /\ cache' = idem.cache
                /\ IF transfer_money_entry(from, to, idem) = "return"
                   THEN ReturnExisting(p, idem.txn[1])
                   ELSE /\ pc' = [pc EXCEPT ![p] = "create"]
                        /\ op' = [op EXCEPT ![p] =
                               [NoOp EXCEPT !.fn = "transfer_money", !.from_user = from,
                                            !.to_user = to, !.amount = amount,
                                            !.reference_id = ref, !.id = FreshId]]
                        /\ result' = [result EXCEPT ![p] = NoResult]
                        /\ UNCHANGED tx
    /\ UNCHANGED <<users, wallets, kyc_status, kyc_verified_at, response, is_active, balance, txns, ledger, intents, events, queue>>

\* add_money, lines 171-180, called without reference_id (as the tests do): the
\* generated reference is new, the idempotency check finds nothing
AddMoneyCall(p, user, amount) ==
    /\ CanStart(p)
    /\ calls' = calls + 1
    /\ LET ref == generate_reference_id(FreshId)
           idem == check_idempotency(cache, txns, ref)
       IN  /\ cache' = idem.cache
           /\ IF idem.txn # Null
              THEN ReturnExisting(p, idem.txn[1])
              ELSE /\ pc' = [pc EXCEPT ![p] = "create"]
                   /\ op' = [op EXCEPT ![p] =
                          [NoOp EXCEPT !.fn = "add_money", !.to_user = user,
                                       !.amount = amount, !.reference_id = ref,
                                       !.id = FreshId]]
                   /\ result' = [result EXCEPT ![p] = NoResult]
                   /\ UNCHANGED tx
    /\ UNCHANGED <<users, wallets, kyc_status, kyc_verified_at, response, is_active, balance, txns, ledger, intents, events, queue>>

\* PaymentService.create_payment_intent: generate_payment_id gives an id no
\* intent has
create_payment_intent(pid, user, amount) ==
    /\ calls < MaxCalls
    /\ calls' = calls + 1
    /\ ~\E i \in intents : i.gateway_payment_id = pid
    /\ intents' = intents \cup {NewPaymentIntent(pid, user, amount)}
    /\ UNCHANGED <<users, wallets, kyc_status, kyc_verified_at, response, is_active, balance, txns, ledger, cache, events,
                   pc, op, tx, result, queue>>

DepositReference(pid) == "DEPOSIT-" \o pid

\* a processor that takes no stored event for processed
already_processed_never(existing) == FALSE

\* line 85: the event read at line 84 exists and is PROCESSED
already_processed(existing) == \E e \in existing : e.status = "PROCESSED"

\* process_payment_webhook, lines 80-87: the event id is the payment id; an
\* event already PROCESSED is returned.  task is the queue message the call
\* serves, Null when the service is called directly; amount and user_email are
\* the payload's fields of those names, Null when it has none.
process_payment_webhook(p, pid, etype, msg, amount, user_email, task) ==
    LET existing == {e \in events : e.event_id = pid}
    IN  IF already_processed(existing)
        THEN /\ pc' = [pc EXCEPT ![p] = "done"]
             /\ op' = [op EXCEPT ![p] = NoOp]
             /\ result' = [result EXCEPT ![p] = [kind |-> "ok", txn |-> Null, message |-> ""]]
        ELSE /\ pc' = [pc EXCEPT ![p] = "wh_event"]
             /\ op' = [op EXCEPT ![p] =
                    [NoOp EXCEPT !.fn = "process_payment_webhook",
                                 !.payment_id = pid, !.event_type = etype,
                                 !.error_message = msg, !.task = task,
                                 !.payload_amount = amount,
                                 !.payload_user_email = user_email,
                                 !.existing_event =
                                     IF existing = {} THEN Null
                                     ELSE <<CHOOSE e \in existing : TRUE>>]]
             /\ result' = [result EXCEPT ![p] = NoResult]

\* a delivery handed to the service directly
WebhookCall(p, pid, etype, msg) ==
    /\ CanStart(p)
    /\ calls' = calls + 1
    /\ process_payment_webhook(p, pid, etype, msg, Null, Null, Null)
    /\ UNCHANGED <<users, wallets, kyc_status, kyc_verified_at, response, is_active, balance, txns, ledger, cache, intents, events, tx, queue>>

\* a delivery whose payload carries an amount and a user_email of its own
WebhookCallWithFields(p, pid, etype, amount, user_email) ==
    /\ CanStart(p)
    /\ calls' = calls + 1
    /\ process_payment_webhook(p, pid, etype, Null, <<amount>>, <<user_email>>, Null)
    /\ UNCHANGED <<users, wallets, kyc_status, kyc_verified_at, response, is_active, balance, txns, ledger, cache, intents, events, tx, queue>>

PendingEventIds(p) == {tx[q].ev[1].event_id : q \in {r \in Procs \ {p} : tx[r].ev # Null}}

\* lines 89-100: the event row is inserted (the insert waits for an uncommitted
\* row with the same event_id), or the row read at line 84 is set to PROCESSING
WebhookEvent(p) ==
    /\ pc[p] = "wh_event"
    /\ op[p].payment_id \notin PendingEventIds(p)
    /\ IF op[p].existing_event = Null
       THEN /\ ~\E e \in events : e.event_id = op[p].payment_id
            /\ tx' = [tx EXCEPT ![p].ev = <<NewWebhookEvent(op[p].payment_id, op[p].event_type)>>]
       ELSE tx' = [tx EXCEPT ![p].ev = <<[op[p].existing_event[1] EXCEPT !.status = "PROCESSING"]>>]
    /\ pc' = [pc EXCEPT ![p] = "wh_dispatch"]
    /\ UNCHANGED <<users, wallets, kyc_status, kyc_verified_at, response, is_active, balance, txns, ledger, cache, intents, events,
                   op, result, calls, queue>>

\* line 91 when another delivery committed the event after line 84 read none:
\* the unique index on event_id fires outside the try block and the call raises
IntegrityErrorOnEvent(p) ==
    /\ pc[p] = "wh_event"
    /\ op[p].payment_id \notin PendingEventIds(p)
    /\ op[p].existing_event = Null
    /\ \E e \in events : e.event_id = op[p].payment_id
    /\ Raise(p, "IntegrityError")
    /\ process_webhook_async_except(p)
    /\ UNCHANGED <<users, wallets, kyc_status, kyc_verified_at, response, is_active, balance, txns, ledger, cache, intents, events, calls>>

\* a processor that ignores the text the gateway sent
payload_error_message_ignored(msg) == "Payment failed"

\* line 128: payload.get('error_message', 'Payment failed')
payload_error_message(msg) == IF msg = Null THEN "Payment failed" ELSE msg[1]

\* a processor that credits what the payload says, where it says it
deposit_arguments_from_payload(intent, call) ==
    [user |-> IF call.payload_user_email = Null THEN intent.user
              ELSE call.payload_user_email[1],
     amount |-> IF call.payload_amount = Null THEN intent.amount
                ELSE call.payload_amount[1]]

\* lines 115-120: add_money is called with the user and the amount of the
\* stored intent; the amount and user_email fields of the payload are not read
deposit_arguments(intent, call) == [user |-> intent.user, amount |-> intent.amount]

\* lines 102-135 up to the insert of add_money: intent lookup, dispatch on the
\* event type, and for payment.succeeded lines 171-180 of add_money
WebhookDispatch(p) ==
    /\ pc[p] = "wh_dispatch"
    /\ LET found == {i \in intents : i.gateway_payment_id = op[p].payment_id}
           intent == CHOOSE i \in found : TRUE
           ref == DepositReference(op[p].payment_id)
           idem == check_idempotency(cache, txns, ref)
       IN  IF found = {}
           THEN Raise(p, "DoesNotExist") /\ UNCHANGED cache
           ELSE IF op[p].event_type = "payment.succeeded"
           THEN /\ cache' = idem.cache
                /\ IF idem.txn # Null
                   THEN /\ tx' = [tx EXCEPT ![p].intent = <<mark_succeeded(intent)>>,
                                            ![p].ev = <<mark_processed(@[1])>>]
                        /\ pc' = [pc EXCEPT ![p] = "commit"]
                        /\ UNCHANGED op
                   ELSE /\ tx' = [tx EXCEPT ![p].intent = <<mark_succeeded(intent)>>]
                        /\ pc' = [pc EXCEPT ![p] = "create"]
                        /\ op' = [op EXCEPT ![p].to_user = deposit_arguments(intent, op[p]).user,
                                            ![p].amount = deposit_arguments(intent, op[p]).amount,
                                            ![p].reference_id = ref,
                                            ![p].id = FreshId]
                /\ UNCHANGED result
           ELSE /\ tx' = [tx EXCEPT ![p].intent =
                                        IF op[p].event_type = "payment.failed"
                                        THEN <<intent_mark_failed(intent,
                                                   payload_error_message(op[p].error_message))>>
                                        ELSE Null,
                                    ![p].ev = <<mark_processed(@[1])>>]
                /\ pc' = [pc EXCEPT ![p] = "commit"]
                /\ UNCHANGED <<cache, op, result>>
    /\ process_webhook_async_except(p)
    /\ UNCHANGED <<users, wallets, kyc_status, kyc_verified_at, response, is_active, balance, txns, ledger, intents, events, calls>>

TransactionType(fn) == IF fn = "transfer_money" THEN "TRANSFER" ELSE "DEPOSIT"

\* Transaction.objects.create, lines 83-92 and 183-191.  The insert waits while
\* another open transaction holds an uncommitted row with the same reference_id.
CreateTransaction(p) ==
    /\ pc[p] = "create"
    /\ op[p].reference_id \notin PendingRefs(p)
    /\ ~\E t \in txns : t.reference_id = op[p].reference_id
    /\ LET t == NewTransaction(op[p].id, op[p].reference_id, op[p].from_user,
                               op[p].to_user, op[p].amount, TransactionType(op[p].fn))
       IN  tx' = [tx EXCEPT ![p].row = <<t>>, ![p].obj = <<t>>]
    /\ pc' = [pc EXCEPT ![p] = IF op[p].fn = "transfer_money" THEN "lock_from" ELSE "lock_to"]
    /\ UNCHANGED <<users, wallets, kyc_status, kyc_verified_at, response, is_active, balance, txns, ledger, cache, intents, events,
                 op, result, calls, queue>>

\* lines 93-97 and 192-196: the unique index on reference_id fires.  Model.save
\* runs under mark_for_rollback_on_error, so inside the atomic block of line 56
\* (165) the IntegrityError marks the connection as needing rollback, and the
\* query of the second check_idempotency raises TransactionManagementError:
\* the call fails whether or not the cache knows the key.  The cache lookup
\* itself comes first and touches no row.
IntegrityErrorOnCreate(p) ==
    /\ pc[p] = "create"
    /\ op[p].reference_id \notin PendingRefs(p)
    /\ \E t \in txns : t.reference_id = op[p].reference_id
    /\ Raise(p, "TransactionManagementError")
    /\ process_webhook_async_except(p)
    /\ UNCHANGED <<users, wallets, kyc_status, kyc_verified_at, response, is_active, balance, txns, ledger, cache, intents, events, calls>>

\* line 101: Wallet.objects.select_for_update().get(user=from_user)
LockFromWallet(p) ==
    /\ pc[p] = "lock_from"
    /\ ~LockedByOther(p, op[p].from_user)
    /\ tx' = [tx EXCEPT ![p].held = @ \cup {op[p].from_user},
                        ![p].bal[op[p].from_user] = balance[op[p].from_user]]
    /\ pc' = [pc EXCEPT ![p] = "lock_to"]
    /\ UNCHANGED <<users, wallets, kyc_status, kyc_verified_at, response, is_active, balance, txns, ledger, cache, intents, events,
                 op, result, calls, queue>>

\* lines 102-162 of transfer_money: the second lock and the transactional body
TransferBody(p) ==
    /\ pc[p] = "lock_to"
    /\ op[p].fn = "transfer_money"
    /\ ~LockedByOther(p, op[p].to_user)
    /\ LET from == op[p].from_user
           to == op[p].to_user
           amount == op[p].amount
           from_bal == tx[p].bal[from]
           to_bal == balance[to]
           obj0 == [tx[p].obj[1] EXCEPT !.from_balance_before = <<from_bal>>,
                                        !.to_balance_before = <<to_bal>>]
       IN  IF ~can_debit(from_bal, amount)
           THEN Raise(p, "InsufficientBalanceError") /\ UNCHANGED cache
           ELSE IF ~positive_amount(amount)
           THEN Raise(p, "ValueError") /\ UNCHANGED cache
           ELSE LET from_after == debit(from_bal, amount)
                    to_after == credit(to_bal, amount)
                    obj1 == mark_completed([obj0 EXCEPT !.from_balance_after = <<from_after>>,
                                                        !.to_balance_after = <<to_after>>])
                IN  /\ tx' = [tx EXCEPT ![p].held = @ \cup {to},
                                        ![p].bal[from] = from_after,
                                        ![p].bal[to] = to_after,
                                        ![p].led = @ \o TransferEntries(obj1.id, from, to, amount,
                                                                         from_after, to_after),
                                        ![p].row = <<SaveStatus(@[1], obj1)>>,
                                        ![p].obj = <<obj1>>]
                    /\ cache' = CacheSet(cache, op[p].reference_id, obj1.id)
                    /\ pc' = [pc EXCEPT ![p] = "commit"]
                    /\ UNCHANGED <<op, result>>
    /\ process_webhook_async_except(p)
    /\ UNCHANGED <<users, wallets, kyc_status, kyc_verified_at, response, is_active, balance, txns, ledger, intents, events, calls>>

\* lines 198-237 of add_money: the wallet lock and the transactional body; for
\* a webhook, then line 133 of process_payment_webhook
AddMoneyBody(p) ==
    /\ pc[p] = "lock_to"
    /\ op[p].fn \in {"add_money", "process_payment_webhook"}
    /\ ~LockedByOther(p, op[p].to_user)
    /\ LET user == op[p].to_user
           amount == op[p].amount
           bal == balance[user]
           obj0 == [tx[p].obj[1] EXCEPT !.to_balance_before = <<bal>>]
       IN  IF ~positive_amount(amount)
           THEN Raise(p, "ValueError") /\ UNCHANGED cache
           ELSE LET after == credit(bal, amount)
                    obj1 == mark_completed([obj0 EXCEPT !.to_balance_after = <<after>>])
                IN  /\ tx' = [tx EXCEPT ![p].held = @ \cup {user},
                                        ![p].bal[user] = after,
                                        ![p].led = @ \o DepositEntries(obj1.id, user, amount, after),
                                        ![p].row = <<SaveStatus(@[1], obj1)>>,
                                        ![p].obj = <<obj1>>,
                                        ![p].ev = IF @ = Null THEN Null ELSE <<mark_processed(@[1])>>]
                    /\ cache' = CacheSet(cache, op[p].reference_id, obj1.id)
                    /\ pc' = [pc EXCEPT ![p] = "commit"]
                    /\ UNCHANGED <<op, result>>
    /\ process_webhook_async_except(p)
    /\ UNCHANGED <<users, wallets, kyc_status, kyc_verified_at, response, is_active, balance, txns, ledger, intents, events, calls>>

\* Transaction.objects.create followed by the saves of mark_completed: the row
\* with the transaction's primary key is the one written
SaveTransaction(table, row) ==
    IF row = Null THEN table
    ELSE {r \in table : r.id # row[1].id} \cup {row[1]}

\* Model.save of the event the transaction wrote: the row with its event_id
SaveEvent(table, ev) ==
    IF ev = Null THEN table
    ELSE {r \in table : r.event_id # ev[1].event_id} \cup {ev[1]}

\* Model.save of the intent the transaction wrote: the row with its payment id
SaveIntent(table, intent) ==
    IF intent = Null THEN table
    ELSE {r \in table : r.gateway_payment_id # intent[1].gateway_payment_id} \cup {intent[1]}

\* the outermost atomic block exits without an exception: the open transaction
\* commits, the locks are released and the call returns
Commit(p) ==
    /\ pc[p] = "commit"
    /\ txns' = SaveTransaction(txns, tx[p].row)
    /\ events' = SaveEvent(events, tx[p].ev)
    /\ intents' = SaveIntent(intents, tx[p].intent)
    /\ balance' = [u \in Users |-> IF u \in tx[p].held THEN tx[p].bal[u] ELSE balance[u]]
    /\ ledger' = ledger \o tx[p].led
    /\ pc' = [pc EXCEPT ![p] = "done"]
    /\ op' = [op EXCEPT ![p] = NoOp]
    /\ tx' = [tx EXCEPT ![p] = NoTx]
    /\ result' = [result EXCEPT ![p] =
                      IF op[p].fn = "process_payment_webhook"
                      THEN [kind |-> "ok", txn |-> Null, message |-> ""]
                      ELSE Returned(tx[p].obj[1])]
    /\ UNCHANGED <<users, wallets, kyc_status, kyc_verified_at, response, is_active, cache, calls, queue>>

\* two transfers each hold one wallet lock and wait for the other's: the
\* database aborts one of them; the OperationalError reaches line 159 and the
\* call raises
DeadlockAbort(p) ==
    /\ pc[p] = "lock_to"
    /\ \E q \in Procs \ {p} :
        /\ pc[q] = "lock_to"
        /\ op[p].to_user \in tx[q].held
        /\ op[q].to_user \in tx[p].held
    /\ Raise(p, "OperationalError")
    /\ process_webhook_async_except(p)
    /\ UNCHANGED <<users, wallets, kyc_status, kyc_verified_at, response, is_active, balance, txns, ledger, cache, intents, events, calls>>

\* the cache entry of a key expires (TRANSACTION_IDEMPOTENCY_TIMEOUT) or is evicted
CacheExpire(key) ==
    /\ CacheGet(cache, key) # {}
    /\ cache' = CacheDelete(cache, key)
    /\ UNCHANGED <<users, wallets, kyc_status, kyc_verified_at, response, is_active, balance, txns, ledger, intents, events,
                 pc, op, tx, result, calls, queue>>

\* time passes: every stored event becomes older than the retention period
RetentionPasses ==
    /\ \E e \in events : ~e.aged
    /\ events' = {[e EXCEPT !.aged = TRUE] : e \in events}
    /\ UNCHANGED <<users, wallets, kyc_status, kyc_verified_at, response, is_active, balance, txns, ledger, cache, intents,
                   pc, op, tx, result, calls, queue>>

\* a purge that looks at the age of a row only
purgeable_any_status(e) == e.aged

\* lines 45-48: status=PROCESSED, created_at__lt=cutoff_date
purgeable(e) == e.status = "PROCESSED" /\ e.aged

\* payments/tasks.py, cleanup_old_webhook_events
cleanup_old_webhook_events ==
    /\ events' = {e \in events : ~purgeable(e)}
    /\ UNCHANGED <<users, wallets, kyc_status, kyc_verified_at, response, is_active, balance, txns, ledger, cache, intents,
                   pc, op, tx, result, calls, queue>>

Next ==
    \/ \E p \in Procs :
        \/ \E from \in Users, to \in Users, amount \in TransferAmounts, key \in IdempotencyKeys :
            TransferCall(p, from, to, amount, key)
        \/ \E user \in Users, amount \in DepositAmounts : AddMoneyCall(p, user, amount)
        \/ \E pid \in PaymentIds, etype \in EventTypes, msg \in PayloadErrors :
            WebhookCall(p, pid, etype, msg)
        \/ WebhookEvent(p)
        \/ IntegrityErrorOnEvent(p)
        \/ WebhookDispatch(p)
        \/ CreateTransaction(p)
        \/ IntegrityErrorOnCreate(p)
        \/ LockFromWallet(p)
        \/ TransferBody(p)
        \/ AddMoneyBody(p)
        \/ Commit(p)
        \/ DeadlockAbort(p)
    \/ \E e \in cache : CacheExpire(e.key)
    \/ \E pid \in PaymentIds, user \in IntentUsers, amount \in 1..MaxAmount :
        create_payment_intent(pid, user, amount)
    \/ RetentionPasses
    \/ cleanup_old_webhook_events

Spec == Init /\ [][Next]_vars

\* ---------------------------------------------------------------- KycSpec
\* Transfers between A and B while B's KYC record and account change.
Engine == <<txns, ledger, cache, intents, events, pc, op, tx, result, calls, queue>>

KycNext ==
    \/ \E u \in Users : create_user(u) /\ UNCHANGED Engine
    \/ \E u \in KycSubjects : submit_kyc(u) /\ UNCHANGED Engine
    \/ \E caller \in Users, u \in KycSubjects : approve_kyc(caller, u) /\ UNCHANGED Engine
    \/ \E caller \in Users, u \in KycSubjects : reject_kyc(caller, u) /\ UNCHANGED Engine
    \/ \E u \in KycSubjects, status \in KYCStatus, active \in BOOLEAN :
        UserAdmin_save(u, status, active) /\ UNCHANGED Engine
    \/ \E p \in Procs :
        \/ \E from \in Users \ {"C"}, to \in Users \ {"C"}, key \in IdempotencyKeys :
            TransferCall(p, from, to, 1, key)
        \/ CreateTransaction(p)
        \/ IntegrityErrorOnCreate(p)
        \/ LockFromWallet(p)
        \/ TransferBody(p)
        \/ Commit(p)
        \/ DeadlockAbort(p)

\* C registers while the others transact
KycInit == Construction({"A", "B"}, {})

KycSpec == KycInit /\ [][KycNext]_vars

\* ------------------------------------------------------------- WebhookSpec
\* The webhook pipeline: the ingestor, the Celery task with its retries, the
\* simulate endpoint and the maintenance task.

\* settings.PAYMENT_GATEWAY_WEBHOOK_SECRET, and a key the gateway does not hold
WebhookSecret == "whsec"
OtherSecret == "guess"

\* the JSON body of a webhook request
Payload(pid, etype, msg) == [event |-> etype, payment_id |-> pid, error_message |-> msg]

\* hmac.new(secret, text, sha256).hexdigest(): the digest is determined by the
\* key and the text, and differs when either differs
hmac_hexdigest(secret, text) == <<"sha256", secret, text>>

\* payments/services.py lines 149-167
verify_webhook_signature(payload, signature, secret) ==
    hmac_hexdigest(secret, payload) = signature

\* the X-Webhook-Signature headers a request may carry: the gateway's, or one
\* made without the secret
Signatures(payload) ==
    {hmac_hexdigest(WebhookSecret, payload), hmac_hexdigest(OtherSecret, payload)}

\* the payloads of the deliveries; none carries an error_message
Payloads == {Payload(pid, etype, Null) : pid \in PaymentIds, etype \in EventTypes}

\* payments/views.py webhook_handler: the signature check of lines 127-131 is
\* commented out, so every parsed payload is queued
webhook_handler(payload, signature) ==
    /\ calls < MaxCalls
    /\ calls' = calls + 1
    /\ queue' = queue \cup
           {NewJob(calls + 1, payload.payment_id, payload.event, payload.error_message,
                   verify_webhook_signature(payload, signature, WebhookSecret))}
    /\ UNCHANGED <<users, wallets, kyc_status, kyc_verified_at, response, is_active, balance, txns,
                   ledger, cache, intents, events, pc, op, tx, result>>

\* a queued delivery is taken by the first free worker
CanRun(p) == Free(p) /\ \A q \in Procs : q < p => ~Free(q)

\* payments/tasks.py process_webhook_async, lines 16-19: a worker takes the
\* message and calls process_payment_webhook
process_webhook_async(p, job) ==
    /\ CanRun(p)
    /\ job \in queue
    /\ queue' = queue \ {job}
    /\ process_payment_webhook(p, job.payment_id, job.event_type, job.error_message, Null, Null, <<job>>)
    /\ UNCHANGED <<users, wallets, kyc_status, kyc_verified_at, response, is_active, balance, txns,
                   ledger, cache, intents, events, tx, calls>>

\* payments/views.py simulate and simulate_payment_success: refused with 400
\* unless the intent is PENDING; else the intent is saved as PROCESSING and
\* process_payment_webhook is called with a payment.succeeded payload
simulate(p, pid) ==
    /\ CanStart(p)
    /\ calls' = calls + 1
    /\ \E i \in {x \in intents : x.gateway_payment_id = pid} :
        IF i.status # "PENDING"
        THEN /\ pc' = [pc EXCEPT ![p] = "done"]
             /\ op' = [op EXCEPT ![p] = NoOp]
             /\ result' = [result EXCEPT ![p] = Raised("400", "Payment already processed")]
             /\ UNCHANGED intents
        ELSE /\ intents' = SaveIntent(intents, <<[i EXCEPT !.status = "PROCESSING"]>>)
             /\ process_payment_webhook(p, pid, "payment.succeeded", Null, <<i.amount>>, <<i.user>>, Null)
    /\ UNCHANGED <<users, wallets, kyc_status, kyc_verified_at, response, is_active, balance, txns,
                   ledger, cache, events, tx, queue>>

WebhookNext ==
    \/ \E payload \in Payloads : \E signature \in Signatures(payload) :
        webhook_handler(payload, signature)
    \/ \E pid \in PaymentIds, user \in IntentUsers, amount \in 1..MaxAmount :
        create_payment_intent(pid, user, amount)
    \/ \E p \in Procs :
        \/ \E job \in queue : process_webhook_async(p, job)
        \/ \E pid \in PaymentIds : simulate(p, pid)
        \/ WebhookEvent(p)
        \/ IntegrityErrorOnEvent(p)
        \/ WebhookDispatch(p)
        \/ CreateTransaction(p)
        \/ AddMoneyBody(p)
        \/ Commit(p)
    \/ RetentionPasses
    \/ cleanup_old_webhook_events

WebhookSpec == Init /\ [][WebhookNext]_vars

\* -------------------------------------------------------------- CleanupSpec
\* The maintenance task over a webhook_events table of three rows of any
\* status of WebhookEvent.EventStatus, young or older than the retention period.
CleanupEventIds == {"E1", "E2", "E3"}

EventStatus == {"PENDING", "PROCESSING", "PROCESSED", "FAILED"}

StoredEvent(id, status, aged) ==
    [NewWebhookEvent(id, "payment.succeeded") EXCEPT !.status = status, !.aged = aged]

CleanupInit ==
    \E status \in [CleanupEventIds -> EventStatus], aged \in [CleanupEventIds -> BOOLEAN] :
        Construction(Users, {StoredEvent(id, status[id], aged[id]) : id \in CleanupEventIds})

CleanupNext ==
    \/ RetentionPasses
    \/ cleanup_old_webhook_events

CleanupSpec == CleanupInit /\ [][CleanupNext]_vars

\* ------------------------------------------------- deliveries with payload fields
\* Deliveries whose payloads name an amount and a user_email, which need not be
\* those of the stored intent, handed to process_payment_webhook.
DepositNext ==
    \/ \E pid \in PaymentIds, user \in IntentUsers, amount \in 1..MaxAmount :
        create_payment_intent(pid, user, amount)
    \/ \E p \in Procs :
        \/ \E pid \in PaymentIds, etype \in EventTypes,
              amount \in 1..MaxAmount, user_email \in IntentUsers :
            WebhookCallWithFields(p, pid, etype, amount, user_email)
        \/ WebhookEvent(p)
        \/ IntegrityErrorOnEvent(p)
        \/ WebhookDispatch(p)
        \/ CreateTransaction(p)
        \/ AddMoneyBody(p)
        \/ Commit(p)
    \/ RetentionPasses
    \/ cleanup_old_webhook_events

DepositSpec == Init /\ [][DepositNext]_vars

\* =================================================================== claims
RowsWithReference(ref) == {t \in txns : t.reference_id = ref}

EntriesOf(id) == {i \in DOMAIN ledger : ledger[i].transaction = id}

\* the wallets after moving what transaction t says
Moved(bal, t) ==
    [u \in Users |->
        bal[u] + (IF u = t.to_user THEN t.amount ELSE 0)
               - (IF u = t.from_user THEN t.amount ELSE 0)]

UniqueReference == \A t1 \in txns, t2 \in txns : t1.reference_id = t2.reference_id => t1 = t2

\* a step changes a wallet only by committing a transaction row whose reference
\* no row had, and then by that row's amount
MovesOncePerReference ==
    balance' # balance =>
        \E t \in txns' \ txns :
            /\ RowsWithReference(t.reference_id) = {}
            /\ txns' = txns \cup {t}
            /\ balance' = Moved(balance, t)

\* a valid transfer_money call whose key a committed row already has returns
\* that row and changes no wallet, ledger entry or transaction
ReplayReturnsExisting ==
    \A p \in Procs :
        (CanStart(p) /\ calls' # calls) =>
            \A from \in Users, to \in Users, amount \in TransferAmounts,
               key \in IdempotencyKeys :
                (/\ TransferCall(p, from, to, amount, key)
                 /\ from # to /\ can_transact(from) /\ can_transact(to)
                 /\ RowsWithReference(key) # {})
                => /\ result'[p].kind = "duplicate"
                   /\ result'[p].txn[1] \in RowsWithReference(key)
                   /\ UNCHANGED <<balance, txns, ledger>>

\* a transaction a call returned is the committed row with its id and reference
ReturnedIsCommitted ==
    \A p \in Procs :
        result[p].txn # Null =>
            \E t \in txns : /\ t.id = result[p].txn[1].id
                            /\ t.reference_id = result[p].txn[1].reference_id

\* C1: sequential transfer_money calls with one idempotency key commit one
\* transaction with that reference, all return its id, and the wallets move
\* once, by its amount.
C1_Idempotency ==
    /\ [](UniqueReference /\ ReturnedIsCommitted)
    /\ [][ReplayReturnsExisting /\ MovesOncePerReference]_vars

\* a transfer with key K1 was committed and a later call with K1 got it back
C1_Witness ==
    \E p \in Procs :
        /\ result[p].kind = "duplicate"
        /\ result[p].txn[1].reference_id = "K1"
        /\ result[p].txn[1].transaction_type = "TRANSFER"
        /\ Cardinality(EntriesOf(result[p].txn[1].id)) = 2
        /\ CacheGet(cache, "K1") = {}

\* C2: of two concurrent calls with one reference one commits; the other, whose
\* insert finds the committed row, returns that row without effect and does
\* not fail.
C2_LoserReturnsWinner ==
    /\ [](UniqueReference)
    /\ [][/\ MovesOncePerReference
          /\ \A p \in Procs :
                (/\ pc[p] = "create"
                 /\ op[p].fn \in {"transfer_money", "add_money"}
                 /\ RowsWithReference(op[p].reference_id) # {}
                 /\ pc'[p] = "done")
                => /\ result'[p].kind = "duplicate"
                   /\ result'[p].txn[1] \in RowsWithReference(op[p].reference_id)]_vars

IntentOf(pid) == {i \in intents : i.gateway_payment_id = pid}

\* the deposit of intent i: one COMPLETED DEPOSIT row under the reference
\* DEPOSIT-<gateway_payment_id>, to the intent's user, of the intent's amount,
\* with one CREDIT entry
DepositedOnce(i) ==
    \E t \in txns :
        /\ RowsWithReference(DepositReference(i.gateway_payment_id)) = {t}
        /\ t.transaction_type = "DEPOSIT" /\ t.status = "COMPLETED"
        /\ t.to_user = i.user /\ t.amount = i.amount
        /\ \E k \in DOMAIN ledger :
            /\ EntriesOf(t.id) = {k}
            /\ ledger[k].user = i.user /\ ledger[k].entry_type = "CREDIT"
            /\ ledger[k].amount = i.amount

\* a payment.succeeded delivery for the payment has been processed
SucceededProcessed(pid) ==
    \/ \E i \in IntentOf(pid) : i.status = "SUCCEEDED"
    \/ \E e \in events : /\ e.event_id = pid /\ e.status = "PROCESSED"
                         /\ e.event_type = "payment.succeeded"

\* C3: however often a payment.succeeded webhook of one payment is delivered,
\* once it has been processed the intent's user holds exactly one DEPOSIT of
\* the intent's amount under DEPOSIT-<gateway_payment_id>, credited once.
C3_DepositExactlyOnce ==
    \A pid \in PaymentIds :
        SucceededProcessed(pid) => \A i \in IntentOf(pid) : DepositedOnce(i)

\* C4: every wallet's committed balance is at least 0.
C4_NonNegativeBalance == \A u \in Users : balance[u] >= 0

\* a transfer was refused for lack of balance and a negative amount was
\* refused, while some wallet stands at 0 after paying out
C4_Witness ==
    /\ \E t \in txns : /\ t.transaction_type = "TRANSFER"
                       /\ t.status = "COMPLETED"
                       /\ balance[t.from_user] = 0
    /\ \E p \in Procs : result[p].kind \in {"InsufficientBalanceError", "ValueError"}

Signed(e) == IF e.entry_type = "CREDIT" THEN e.amount ELSE 0 - e.amount

RECURSIVE RunningSum(_, _)
\* the signed sum of user u's first entries among ledger[1..n]
RunningSum(u, n) ==
    IF n = 0 THEN 0
    ELSE RunningSum(u, n - 1) + (IF ledger[n].user = u THEN Signed(ledger[n]) ELSE 0)

\* C5: a wallet's balance is its user's credits minus debits, and every
\* entry's balance_after is the running signed sum of its user's entries.
C5_LedgerAgreement ==
    /\ \A u \in Users : balance[u] = RunningSum(u, Len(ledger))
    /\ \A n \in DOMAIN ledger : ledger[n].balance_after = RunningSum(ledger[n].user, n)

\* a user with a debit between two credits
C5_Witness ==
    \E a \in DOMAIN ledger, b \in DOMAIN ledger, c \in DOMAIN ledger :
        /\ a < b /\ b < c
        /\ ledger[a].user = ledger[b].user /\ ledger[b].user = ledger[c].user
        /\ ledger[a].entry_type = "CREDIT" /\ ledger[b].entry_type = "DEBIT"
        /\ ledger[c].entry_type = "CREDIT"

\* C6: a transfer between two users who can transact, of a positive amount the
\* sender's balance covers, returns a COMPLETED TRANSFER, takes the amount from
\* the sender, gives it to the recipient and leaves the other wallets alone.
C6_TransferSuccess ==
    [][\A p \in Procs :
        /\ (/\ pc[p] = "lock_to" /\ op[p].fn = "transfer_money"
            /\ ~LockedByOther(p, op[p].to_user)
            /\ positive_amount(op[p].amount)
            /\ op[p].amount <= balance[op[p].from_user]
            /\ pc'[p] # pc[p])
           => pc'[p] = "commit"
        /\ (pc[p] = "commit" /\ op[p].fn = "transfer_money" /\ pc'[p] = "done")
           => /\ result'[p].kind = "ok"
              /\ result'[p].txn[1].transaction_type = "TRANSFER"
              /\ result'[p].txn[1].status = "COMPLETED"
              /\ result'[p].txn[1].from_user = op[p].from_user
              /\ result'[p].txn[1].to_user = op[p].to_user
              /\ result'[p].txn[1].amount = op[p].amount
              /\ op[p].from_user # op[p].to_user
              /\ balance' = [balance EXCEPT ![op[p].from_user] = @ - op[p].amount,
                                            ![op[p].to_user] = @ + op[p].amount]]_vars

\* a transfer of the sender's whole balance has returned
C6_Witness ==
    \E p \in Procs :
        /\ result[p].kind = "ok"
        /\ result[p].txn[1].transaction_type = "TRANSFER"
        /\ result[p].txn[1].amount = MaxAmount

\* C7: a COMPLETED TRANSFER has exactly two ledger entries, a DEBIT of its
\* amount for from_user and a CREDIT of its amount for to_user.
C7_DoubleEntry ==
    \A t \in txns :
        (t.transaction_type = "TRANSFER" /\ t.status = "COMPLETED") =>
            \E d \in DOMAIN ledger, c \in DOMAIN ledger :
                /\ d # c
                /\ EntriesOf(t.id) = {d, c}
                /\ ledger[d].entry_type = "DEBIT" /\ ledger[d].user = t.from_user
                /\ ledger[c].entry_type = "CREDIT" /\ ledger[c].user = t.to_user
                /\ ledger[d].amount = t.amount /\ ledger[c].amount = t.amount

\* two COMPLETED transfers in opposite directions
C7_Witness ==
    \E t1 \in txns, t2 \in txns :
        /\ t1.transaction_type = "TRANSFER" /\ t1.status = "COMPLETED"
        /\ t2.transaction_type = "TRANSFER" /\ t2.status = "COMPLETED"
        /\ t1.from_user = t2.to_user /\ t1.to_user = t2.from_user

C9_InsufficientBalance ==
    [][\A p \in Procs :
        (/\ pc[p] = "lock_to" /\ op[p].fn = "transfer_money"
         /\ ~LockedByOther(p, op[p].to_user)
         /\ op[p].amount > balance[op[p].from_user]
         /\ pc'[p] # pc[p])
        => /\ result'[p].kind = "InsufficientBalanceError"
           /\ UNCHANGED <<balance, ledger>>
           /\ tx'[p].led = <<>>]_vars

\* a transfer was refused for lack of balance by a sender who holds money
C9_Witness ==
    \E p \in Procs :
        /\ result[p].kind = "InsufficientBalanceError"
        /\ \E u \in Users : balance[u] > 0 /\ balance[u] < MaxAmount

\* C10: after a transfer failed in the transactional body (insufficient
\* balance), a committed row with its reference exists in status FAILED with
\* the error message.
C10_FailedRowCommitted ==
    [][\A p \in Procs :
        (/\ pc[p] = "lock_to" /\ op[p].fn = "transfer_money"
         /\ result'[p].kind = "InsufficientBalanceError")
        => \E t \in txns' : /\ t.reference_id = op[p].reference_id
                            /\ t.status = "FAILED"
                            /\ t.error_message # ""]_vars

\* C11: a transfer whose sender is its recipient raises InvalidTransactionError
\* whatever the amount and the balance, and changes no wallet, transaction row
\* or ledger entry.
C11_SelfTransfer ==
    [][\A p \in Procs :
        (CanStart(p) /\ calls' # calls) =>
            \A u \in Users, amount \in TransferAmounts, key \in IdempotencyKeys :
                TransferCall(p, u, u, amount, key)
                => /\ result'[p].kind = "InvalidTransactionError"
                   /\ pc'[p] = "done"
                   /\ tx'[p] = NoTx
                   /\ UNCHANGED <<balance, txns, ledger, cache>>]_vars

\* a verified user holding money was refused a transfer to themself
C11_Witness ==
    \E p \in Procs :
        /\ result[p].kind = "InvalidTransactionError"
        /\ result[p].message = "Cannot transfer to yourself"
        /\ \E u \in Users : can_transact(u) /\ balance[u] > 0

Transacts(u) == is_active[u] /\ kyc_status[u] = "VERIFIED"

\* C12: a transfer whose sender or recipient is not both active and VERIFIED
\* (PENDING, IN_REVIEW, REJECTED, EXPIRED, or inactive) raises
\* InvalidTransactionError and changes no wallet, ledger entry or transaction.
C12_KycGate ==
    [][\A p \in Procs :
        (CanStart(p) /\ calls' # calls) =>
            \A from \in Users, to \in Users, key \in IdempotencyKeys :
                (TransferCall(p, from, to, 1, key) /\ (~Transacts(from) \/ ~Transacts(to)))
                => /\ result'[p].kind = "InvalidTransactionError"
                   /\ pc'[p] = "done"
                   /\ tx'[p] = NoTx
                   /\ UNCHANGED <<balance, txns, ledger>>]_vars

\* a transfer to B was refused while B is VERIFIED but deactivated, after a
\* transfer to B had completed
C12_Witness ==
    /\ \E p \in Procs :
        /\ result[p].kind = "InvalidTransactionError"
        /\ result[p].message = "Recipient is not verified to receive transactions"
    /\ kyc_status["B"] = "VERIFIED" /\ ~is_active["B"]
    /\ balance["B"] > 0

\* C13: the engine rejects an amount below the minimum (zero or negative
\* included) with InvalidTransactionError before it makes a transaction row, a
\* wallet change or a ledger entry.
C13_AmountRangeInEngine ==
    [][\A p \in Procs :
        (CanStart(p) /\ calls' # calls) =>
            \A from \in Users, to \in Users, amount \in TransferAmounts, key \in IdempotencyKeys :
                (TransferCall(p, from, to, amount, key) /\ ~positive_amount(amount))
                => /\ result'[p].kind = "InvalidTransactionError"
                   /\ pc'[p] = "done"
                   /\ UNCHANGED <<balance, txns, ledger>>]_vars

\* two transfers each hold one wallet lock and wait for the other's
LockCycle(p, q) ==
    /\ p # q
    /\ pc[p] = "lock_to" /\ pc[q] = "lock_to"
    /\ op[p].to_user \in tx[q].held
    /\ op[q].to_user \in tx[p].held

\* C14: concurrent transfers, symmetric pairs A->B and B->A included, never
\* reach a state in which two of them each hold one wallet lock and wait for
\* the other's.
C14_NoDeadlock == \A p \in Procs, q \in Procs : ~LockCycle(p, q)

\* the order of the users' primary keys
user_id == [u \in Users |-> IF u = "A" THEN 1 ELSE IF u = "B" THEN 2 ELSE 3]

\* C15: a transfer that holds one of its two wallet locks holds the lock of
\* the user with the smaller user_id, whether that user sends or receives.
C15_LockOrder ==
    \A p \in Procs :
        (pc[p] = "lock_to" /\ op[p].fn = "transfer_money") =>
            \A u \in tx[p].held :
                /\ user_id[u] <= user_id[op[p].from_user]
                /\ user_id[u] <= user_id[op[p].to_user]

\* C16: concurrent transfers over the same wallets lose no update: a transfer
\* whose amount is covered by the sender's balance read under the lock
\* completes, and its commit changes the committed balances exactly as a
\* serial execution would (A->B and B->A started together both complete).
C16_NoLostUpdate ==
    [][\A p \in Procs :
        /\ (/\ pc[p] = "lock_to" /\ op[p].fn = "transfer_money"
            /\ positive_amount(op[p].amount)
            /\ can_debit(tx[p].bal[op[p].from_user], op[p].amount)
            /\ pc'[p] # pc[p])
           => pc'[p] = "commit"
        /\ (pc[p] = "commit" /\ op[p].fn = "transfer_money" /\ pc'[p] = "done")
           => /\ tx[p].bal[op[p].from_user] = balance[op[p].from_user] - op[p].amount
              /\ tx[p].bal[op[p].to_user] = balance[op[p].to_user] + op[p].amount
              /\ balance' = Moved(balance, tx[p].row[1])]_vars

\* the balance stamps of a transaction
Stamps(t) == <<t.from_balance_before, t.from_balance_after,
               t.to_balance_before, t.to_balance_after>>

\* C17: the committed row of a transaction a call returned stores the stamps
\* the call returned: to_balance_after = to_balance_before + amount, and for a
\* transfer from_balance_after = from_balance_before - amount, none of them
\* null.
C17_StampsStored ==
    \A p \in Procs :
        (result[p].kind = "ok" /\ result[p].txn # Null) =>
            \E t \in txns :
                /\ t.id = result[p].txn[1].id
                /\ t.status = "COMPLETED"
                /\ Stamps(t) = Stamps(result[p].txn[1])
                /\ t.to_balance_before # Null /\ t.to_balance_after # Null
                /\ t.to_balance_after[1] = t.to_balance_before[1] + t.amount
                /\ t.transaction_type = "TRANSFER" =>
                    /\ t.from_balance_before # Null /\ t.from_balance_after # Null
                    /\ t.from_balance_after[1] = t.from_balance_before[1] - t.amount

\* the lookup of a valid transfer call: afterwards the cache entry of the key,
\* if any, names a committed row with that reference, and the call returns an
\* existing transaction exactly when the database holds one
LookupDecides ==
    \A p \in Procs :
        (CanStart(p) /\ calls' # calls) =>
            \A from \in Users, to \in Users, amount \in TransferAmounts, key \in IdempotencyKeys :
                (TransferCall(p, from, to, amount, key) /\ validate_transfer(from, to) = "")
                => /\ \A id \in CacheGet(cache', key) :
                        \E t \in RowsWithReference(key) : t.id = id
                   /\ IF RowsWithReference(key) # {}
                      THEN /\ result'[p].kind = "duplicate"
                           /\ result'[p].txn[1] \in RowsWithReference(key)
                      ELSE pc'[p] = "create"

\* C18: whatever the idempotency cache holds for a reference (nothing, an
\* expired entry, the id of a transaction that does not exist), no second row
\* with the reference is committed and the wallets are not moved a second
\* time; an entry naming a missing transaction is deleted and the database
\* lookup decides.
C18_CacheSafety ==
    /\ [](UniqueReference)
    /\ [][MovesOncePerReference /\ LookupDecides]_vars

\* a call passed the lookup for K1 and waits to insert while the transfer that
\* holds K1 has set the cache entry and not committed; the entry is gone
C18_Witness ==
    \E p \in Procs, q \in Procs :
        /\ pc[p] = "create" /\ op[p].reference_id = "K1"
        /\ pc[q] = "commit" /\ op[q].reference_id = "K1"
        /\ CacheGet(cache, "K1") = {}

EventsWithId(id) == {e \in events : e.event_id = id}

\* C19: at most one webhook event row exists per event_id, and a delivery
\* whose event_id has a PROCESSED row ends at once and changes no wallet,
\* ledger entry, transaction, payment intent or webhook event.
C19_ProcessedIsNoOp ==
    /\ [](\A e1 \in events, e2 \in events : e1.event_id = e2.event_id => e1 = e2)
    /\ [][\A p \in Procs :
            (CanStart(p) /\ calls' # calls) =>
                \A pid \in PaymentIds, etype \in EventTypes, msg \in PayloadErrors :
                    (/\ WebhookCall(p, pid, etype, msg)
                     /\ \E e \in EventsWithId(pid) : e.status = "PROCESSED")
                    => /\ pc'[p] = "done"
                       /\ result'[p].kind = "ok"
                       /\ tx'[p] = NoTx
                       /\ UNCHANGED <<balance, ledger, txns, intents, events, cache>>]_vars

\* a delivery has returned while the event of its payment is PROCESSED and the
\* deposit of that payment is credited
C19_Witness ==
    /\ calls = MaxCalls
    /\ \A p \in Procs : Free(p)
    /\ \E e \in EventsWithId("P1") : e.status = "PROCESSED" /\ ~e.aged
    /\ \E t \in RowsWithReference(DepositReference("P1")) : t.transaction_type = "DEPOSIT"
    /\ Cardinality(txns) = 2
    /\ \E p \in Procs : result[p].kind = "ok" /\ result[p].txn = Null

\* a COMPLETED DEPOSIT under the payment's reference, to the intent's user, of
\* the intent's amount
HasDeposit(i) ==
    \E t \in RowsWithReference(DepositReference(i.gateway_payment_id)) :
        /\ t.transaction_type = "DEPOSIT" /\ t.status = "COMPLETED"
        /\ t.to_user = i.user /\ t.amount = i.amount

\* C20: in every committed state a payment intent is SUCCEEDED exactly when a
\* COMPLETED DEPOSIT with reference DEPOSIT-<gateway_payment_id> exists for
\* the intent's user and amount, and then the stored webhook event of the
\* payment is PROCESSED.
C20_SucceededIffDeposited ==
    \A i \in intents :
        /\ (i.status = "SUCCEEDED") <=> HasDeposit(i)
        /\ (i.status = "SUCCEEDED") =>
                \A e \in EventsWithId(i.gateway_payment_id) : e.status = "PROCESSED"

\* C21: processing a payment.failed event for an existing intent goes on to
\* commit; the commit stores the intent as FAILED with the error_message of the
\* payload, stores the event as PROCESSED, and leaves every wallet balance,
\* the transactions and the ledger as they were.
C21_PaymentFailed ==
    [][\A p \in Procs :
        /\ (/\ pc[p] = "wh_dispatch"
            /\ pc'[p] # "wh_dispatch"
            /\ op[p].event_type = "payment.failed"
            /\ IntentOf(op[p].payment_id) # {})
           => pc'[p] = "commit" /\ tx'[p].row = Null /\ tx'[p].led = <<>>
        /\ (/\ pc[p] = "commit"
            /\ pc'[p] = "done"
            /\ op[p].event_type = "payment.failed")
           => /\ \E i \in intents' :
                    /\ i.gateway_payment_id = op[p].payment_id
                    /\ i.status = "FAILED"
                    /\ op[p].error_message # Null => i.error_message = op[p].error_message[1]
              /\ \E e \in events' : e.event_id = op[p].payment_id /\ e.status = "PROCESSED"
              /\ UNCHANGED <<balance, txns, ledger>>]_vars

\* a payment.failed delivery that carried the gateway's text has been
\* processed: the intent is FAILED with that text and the event is PROCESSED
C21_Witness ==
    /\ \A p \in Procs : Free(p)
    /\ \E i \in IntentOf("P1") : i.status = "FAILED" /\ i.error_message = "card declined"
    /\ \E e \in EventsWithId("P1") : e.status = "PROCESSED" /\ e.event_type = "payment.failed"
    /\ txns = {OpeningDeposit}

\* C22: processing an event whose type is neither payment.succeeded nor
\* payment.failed marks the event PROCESSED and writes no intent, transaction,
\* ledger entry or balance, whether or not an intent exists for its payment_id.
C22_UnknownTypeProcessed ==
    [][\A p \in Procs :
        (/\ pc[p] = "wh_dispatch"
         /\ pc'[p] # "wh_dispatch"
         /\ op[p].event_type \notin {"payment.succeeded", "payment.failed"})
        => /\ pc'[p] = "commit"
           /\ tx'[p].ev # Null
           /\ tx'[p].ev[1].status = "PROCESSED"
           /\ tx'[p].intent = Null /\ tx'[p].row = Null /\ tx'[p].led = <<>>
           /\ UNCHANGED <<balance, intents, txns, ledger>>]_vars

\* C23: a webhook processing attempt that raises leaves a committed event row
\* for its event_id in status FAILED, with an error message and with
\* retry_count one higher than before the attempt.
C23_FailedAttemptRecorded ==
    [][\A p \in Procs :
        (/\ op[p].fn = "process_payment_webhook"
         /\ pc'[p] = "done"
         /\ result'[p].kind # "ok")
        => \E e \in events' :
              /\ e.event_id = op[p].payment_id
              /\ e.status = "FAILED"
              /\ e.error_message # ""
              /\ e.retry_count = 1 + (IF EventsWithId(op[p].payment_id) = {} THEN 0
                                      ELSE (CHOOSE x \in EventsWithId(op[p].payment_id) : TRUE).retry_count)]_vars

\* the deliveries, numbered in the order the ingestor queued them
Deliveries == 1..MaxCalls

\* the queued messages and running task calls of delivery d
Scheduled(d) ==
    Cardinality({j \in queue : j.id = d})
    + Cardinality({p \in Procs : op[p].task # Null /\ op[p].task[1].id = d})

\* C24: a queued delivery is re-scheduled at most 3 times, so it is processed
\* at most 4 times: it has at most one message or running attempt at a time,
\* numbered 0..3; the retries are scheduled with delays 60, 120 and 240; only
\* an attempt that raised schedules a retry, one numbered one higher than
\* itself, and an attempt that succeeds schedules nothing.
C24_RetrySchedule ==
    /\ [](/\ \A d \in Deliveries : Scheduled(d) <= 1
          /\ \A j \in queue :
                \/ j.retries = 0 /\ j.countdown = 0
                \/ j.retries = 1 /\ j.countdown = 60
                \/ j.retries = 2 /\ j.countdown = 120
                \/ j.retries = 3 /\ j.countdown = 240)
    /\ [][\A j \in queue' \ queue :
            \/ j.retries = 0 /\ calls' = calls + 1
            \/ \E p \in Procs :
                /\ op[p].task # Null
                /\ op[p].task[1].id = j.id
                /\ j.retries = op[p].task[1].retries + 1
                /\ pc'[p] = "done"
                /\ result'[p].kind # "ok"]_vars

\* the third retry of a delivery waits in the queue
C24_Witness ==
    \E j \in queue : j.retries = 3 /\ j.countdown = 240 /\ \A p \in Procs : Free(p)

\* the row of event_id id is in the table before the step and not after it
Deleted(id) == EventsWithId(id) # {} /\ EventsWithId(id)' = {}

\* C25: the maintenance task deletes exactly the webhook event rows that are
\* PROCESSED and older than the retention period: a row that disappears was
\* PROCESSED and old, a run of the task leaves every other row as it was and
\* none of those, and it touches no wallet, transaction, ledger entry or intent.
C25_CleanupExact ==
    [][/\ \A e \in events : Deleted(e.event_id) => e.status = "PROCESSED" /\ e.aged
       /\ (\E e \in events : Deleted(e.event_id))
          => /\ \A e \in events : e.status = "PROCESSED" /\ e.aged => Deleted(e.event_id)
             /\ \A e \in events : ~Deleted(e.event_id) => e \in events'
             /\ events' \subseteq events
             /\ UNCHANGED <<wallets, balance, txns, ledger, intents>>]_vars

\* the task has run: an old PROCESSED row is gone, while an old FAILED row and
\* an old PENDING or PROCESSING row are still stored
C25_Witness ==
    /\ Cardinality(events) = 2
    /\ \E e \in events : e.status = "FAILED" /\ e.aged
    /\ \E e \in events : e.status \in {"PENDING", "PROCESSING"} /\ e.aged

TerminalStatus == {"SUCCEEDED", "FAILED", "CANCELLED"}

\* C26: an intent is created PENDING, and once its status is SUCCEEDED, FAILED
\* or CANCELLED no step changes it again.
C26_TerminalIntent ==
    /\ [][\A i \in intents' :
            IntentOf(i.gateway_payment_id) = {} => i.status = "PENDING"]_vars
    /\ [][\A i \in intents :
            i.status \in TerminalStatus
            => \E j \in intents' :
                  j.gateway_payment_id = i.gateway_payment_id /\ j.status = i.status]_vars

\* the edges of the KYC state machine: submit, approve, reject, expire, resubmit
KycEdges ==
    {<<"PENDING", "IN_REVIEW">>, <<"IN_REVIEW", "VERIFIED">>, <<"IN_REVIEW", "REJECTED">>,
     <<"VERIFIED", "EXPIRED">>, <<"REJECTED", "IN_REVIEW">>, <<"EXPIRED", "IN_REVIEW">>}

\* C27: the kyc_status of a user changes only along the edges of the KYC state
\* machine; in particular a user becomes VERIFIED or REJECTED only from
\* IN_REVIEW.
C27_KycEdges ==
    [][\A u \in users :
        kyc_status'[u] # kyc_status[u] => <<kyc_status[u], kyc_status'[u]>> \in KycEdges]_vars

\* C28: approve_kyc and reject_kyc called by a user without the staff flag are
\* refused with 403 and leave kyc_status and kyc_verified_at of every user as
\* they were; a request to these endpoints that moves a user to VERIFIED or
\* REJECTED comes from a staff caller.
C28_StaffOnly ==
    [][\A caller \in Users \ Staff, u \in KycSubjects :
        (approve_kyc(caller, u) \/ reject_kyc(caller, u))
        => /\ response' = 403
           /\ UNCHANGED <<kyc_status, kyc_verified_at>>]_vars

\* B has asked for review and a request of a caller without the staff flag has
\* just been refused: B is still IN_REVIEW and was never verified
C28_Witness ==
    /\ response = 403
    /\ kyc_status["B"] = "IN_REVIEW"
    /\ kyc_verified_at["B"] = Null

\* C29: a webhook request whose signature does not match the HMAC of its
\* payload is rejected by the ingestor: no job for it is ever queued or run by
\* a worker.
C29_BadSignatureRejected ==
    /\ \A j \in queue : j.signature_ok
    /\ \A p \in Procs : op[p].task # Null => op[p].task[1].signature_ok

\* C30: every user has exactly one wallet in every state; the wallet of a new
\* user starts with balance 0; a step that is not a step of a money movement
\* (a later save of a user) leaves the wallets of the existing users and their
\* balances as they were.
C30_OneWallet ==
    /\ [](wallets = users)
    /\ [][/\ \A u \in users' \ users : u \in wallets' /\ balance'[u] = 0
          /\ (\A p \in Procs : pc'[p] = pc[p])
             => \A u \in users : u \in wallets' /\ balance'[u] = balance[u]]_vars

\* C has registered and has an empty wallet; B, holding money, has been
\* rejected and has submitted KYC again
C30_Witness ==
    /\ "C" \in users /\ "C" \in wallets /\ balance["C"] = 0
    /\ kyc_status["B"] = "IN_REVIEW" /\ response = 200
    /\ balance["B"] > 0

\* C31: the KYC gate holds in the stored state when a transfer takes its
\* wallet locks: a transfer never locks a wallet, and so never goes on to
\* complete, while its sender or recipient cannot transact.
C31_FreshKycGate ==
    [][\A p \in Procs :
        (/\ op[p].fn = "transfer_money"
         /\ pc[p] = "lock_from"
         /\ pc'[p] = "lock_to")
        => Transacts(op[p].from_user) /\ Transacts(op[p].to_user)]_vars

\* C32: in every state a cache entry for a reference_id implies that a
\* committed transaction row with that reference_id exists.
C32_CacheAfterCommit ==
    \A e \in cache : \E t \in txns : t.reference_id = e.key

\* C33: whenever a job is in the queue, a webhook event row for the event_id
\* of that job is stored, and the step that queues a job changes no balance.
C33_EventBeforeJob ==
    /\ [](\A j \in queue : EventsWithId(j.payment_id) # {})
    /\ [][queue' # queue /\ calls' # calls => UNCHANGED balance]_vars

RECURSIVE SumOfBalances(_)
\* the sum of the stored balances of the wallets of the users in S
SumOfBalances(S) ==
    IF S = {} THEN 0
    ELSE LET u == CHOOSE x \in S : TRUE
         IN  balance[u] + SumOfBalances(S \ {u})

RECURSIVE SumOfAmounts(_)
\* the sum of the amounts of the transaction rows in T
SumOfAmounts(T) ==
    IF T = {} THEN 0
    ELSE LET t == CHOOSE x \in T : TRUE
         IN  t.amount + SumOfAmounts(T \ {t})

CompletedDeposits ==
    {t \in txns : t.transaction_type = "DEPOSIT" /\ t.status = "COMPLETED"}

CompletedTransfers ==
    {t \in txns : t.transaction_type = "TRANSFER" /\ t.status = "COMPLETED"}

\* C35: in every committed state the wallet balances add up to the amounts of
\* the completed deposits; a step that commits no deposit (a transfer's commit
\* among them) leaves the total as it was, and a committed deposit raises it
C35_MoneyConserved ==
    /\ [](SumOfBalances(wallets) = SumOfAmounts(CompletedDeposits))
    /\ [][/\ CompletedDeposits' = CompletedDeposits
             => SumOfBalances(wallets)' = SumOfBalances(wallets)
          /\ CompletedDeposits' # CompletedDeposits
             => SumOfBalances(wallets)' > SumOfBalances(wallets)]_vars

\* a transfer and a second deposit are both committed
C35_Witness ==
    /\ CompletedTransfers # {}
    /\ Cardinality(CompletedDeposits) >= 2

\* the transaction t is what a call of the given type with these arguments makes
MatchesCall(t, type, from, to, amount) ==
    /\ t.transaction_type = type
    /\ t.from_user = from
    /\ t.to_user = to
    /\ t.amount = amount

\* C36: a transaction that transfer_money or add_money returns matches the
\* arguments of the call that returns it: a TRANSFER from from_user to to_user
\* of the amount, or a DEPOSIT to the user of the amount, whether the call
\* created the row or found it under its reference_id
C36_ReturnedMatchesCall ==
    [][\A p \in Procs :
        /\ \A from \in Users, to \in Users, amount \in TransferAmounts,
              key \in IdempotencyKeys \cup {NoKey} :
              (TransferCall(p, from, to, amount, key) /\ result'[p].txn # Null)
              => MatchesCall(result'[p].txn[1], "TRANSFER", from, to, amount)
        /\ (pc[p] = "commit" /\ pc'[p] = "done" /\ result'[p].txn # Null)
           => MatchesCall(result'[p].txn[1], TransactionType(op[p].fn),
                          op[p].from_user, op[p].to_user, op[p].amount)]_vars

\* C37: transfer_money validates the parties before it looks the reference up:
\* a call whose sender is its recipient, or whose sender or recipient cannot
\* transact when the call is made, raises InvalidTransactionError and returns
\* no transaction, new or existing, also when its key is that of a committed
\* transaction, and it leaves the cache as it was
C37_ValidationBeforeLookup ==
    [][\A p \in Procs :
        (CanStart(p) /\ calls' # calls) =>
            \A from \in Users, to \in Users, amount \in TransferAmounts, key \in IdempotencyKeys :
                (/\ TransferCall(p, from, to, amount, key)
                 /\ (from = to \/ ~Transacts(from) \/ ~Transacts(to)))
                => /\ result'[p].kind = "InvalidTransactionError"
                   /\ result'[p].txn = Null
                   /\ pc'[p] = "done"
                   /\ UNCHANGED <<cache, txns, balance, ledger>>]_vars

\* every key is that of a committed transfer between A and B, B has since lost
\* its verification, and the one worker that served all the calls raised
\* InvalidTransactionError on the last one, a replay
C37_Witness ==
    /\ \A k \in IdempotencyKeys :
        \E t \in txns : t.reference_id = k /\ t.status = "COMPLETED"
    /\ kyc_status["B"] # "VERIFIED"
    /\ pc[2] = "idle"
    /\ result[1].kind = "InvalidTransactionError"
    /\ result[1].message \in {"Sender is not verified to perform transactions",
                              "Recipient is not verified to receive transactions"}

\* C38: no committed row is PROCESSING or FAILED: every committed transaction
\* is COMPLETED and has its ledger entries, two of its amount for a TRANSFER
\* and one for a DEPOSIT; the row of a call that raised is not in the table
C38_OnlyCompletedRows ==
    \A t \in txns :
        /\ t.status = "COMPLETED"
        /\ Cardinality(EntriesOf(t.id)) = (IF t.transaction_type = "TRANSFER" THEN 2 ELSE 1)
        /\ \A k \in EntriesOf(t.id) : ledger[k].amount = t.amount

\* a call raised in its transactional body after it had created its row, and
\* a transfer and a deposit of other calls are committed
C38_Witness ==
    /\ \E p \in Procs :
        result[p].kind \in {"InsufficientBalanceError", "ValueError", "OperationalError"}
    /\ CompletedTransfers # {}
    /\ Cardinality(CompletedDeposits) >= 2

\* C39: the deposit of a payment.succeeded delivery is that of the stored
\* intent: whatever amount and user_email its payload names, the commit credits
\* intent.amount to the wallet of intent.user and to no other wallet, under a
\* DEPOSIT row of that user and amount, whether or not that user can transact
C39_DepositFromIntent ==
    [][\A p \in Procs :
        (/\ op[p].fn = "process_payment_webhook"
         /\ pc[p] = "commit"
         /\ pc'[p] = "done"
         /\ tx[p].row # Null)
        => \E i \in intents' :
              /\ i.gateway_payment_id = op[p].payment_id
              /\ balance' = [balance EXCEPT ![i.user] = @ + i.amount]
              /\ \E t \in txns' \ txns :
                    /\ t.reference_id = DepositReference(op[p].payment_id)
                    /\ MatchesCall(t, "DEPOSIT", NoUser, i.user, i.amount)]_vars

\* the deposit of an intent of user C, who cannot transact, has run with C's
\* wallet credited by the intent's amount, for a delivery whose payload names
\* user A and another amount
C39_Witness ==
    \E p \in Procs : \E i \in intents :
        /\ op[p].fn = "process_payment_webhook"
        /\ pc[p] = "commit"
        /\ tx[p].row # Null
        /\ i.gateway_payment_id = op[p].payment_id
        /\ i.user = "C" /\ ~Transacts("C")
        /\ op[p].payload_user_email = <<"A">>
        /\ op[p].payload_amount # <<i.amount>>
        /\ tx[p].bal["C"] = balance["C"] + i.amount
        /\ "C" \in tx[p].held

====
